---- MODULE Spec2Model ----
(***************************************************************************)
(* Belief revision agent: propositional formulas, their conversion to CNF, *)
(* the resolution refutation procedure, and the prioritised belief base    *)
(* with expansion, contraction and revision built on top of them.          *)
(***************************************************************************)
EXTENDS Integers, Sequences, FiniteSets, TLC

VARIABLES
    beliefs,      \* BeliefBase.beliefs: insertion-ordered dict, a sequence of <<formula, priority>>
    last,         \* the last BeliefBase call: operation, arguments, base before it, value returned
    clauses,      \* resolution(): the accumulated clause set
    new_clauses,  \* resolution(): the clauses added by the previous round
    res_pc,       \* resolution(): "idle" | "loop" | "done"
    res_out,      \* resolution(): the value returned ("none" until it returns)
    res_in,       \* resolution(): the argument it was called with
    cnf_pc,       \* to_cnf(): "idle" | "call" | "done"
    cnf_in,       \* to_cnf(): the formula converted
    cnf_out,      \* to_cnf(): the CNF returned, a set of clauses
    eq_pc,        \* comparison of two formulas: "idle" | "call" | "done"
    eq_a,         \* comparison: the formula A
    eq_b,         \* comparison: the formula B
    eq_out,       \* comparison: what __eq__ and __hash__ answered
    formula_str,  \* FormulaParser.tokenize: the string scanned, a sequence of characters
    tokens,       \* FormulaParser.tokens
    scan_i,       \* FormulaParser.tokenize: the index i into formula_str (from 0)
    parse_pc,     \* FormulaParser.parse: "idle" | "preprocess" | "scan" | "parse" | "done"
    parse_in,     \* FormulaParser.parse: the string it was called with
    parse_out     \* FormulaParser.parse: the Formula returned

EqVars == <<eq_pc, eq_a, eq_b, eq_out>>
ParseVars == <<formula_str, tokens, scan_i, parse_pc, parse_in, parse_out>>

vars == <<beliefs, last, clauses, new_clauses, res_pc, res_out, res_in,
         cnf_pc, cnf_in, cnf_out, EqVars, ParseVars>>

-----------------------------------------------------------------------------
(* Bounds of the model *)

\* largest number of clauses in a clause set handed to resolution()
MaxInputClauses == 4
\* largest number of connectives in a formula handed to to_cnf()
MaxConnectives == 2
\* largest number of beliefs held in the belief base
MaxBeliefs == 3
\* largest number of connectives in each of the two formulas compared by __eq__
MaxOperandConnectives == 1

\* atom names of the bounded vocabulary
Atoms == {"p", "q"}

-----------------------------------------------------------------------------
(* Literal and Clause *)

\* Literal(name, negated)
Literal(name, negated) == <<name, negated>>

\* Literal.negate
negate(l) == Literal(l[1], ~l[2])

\* Clause.is_empty
is_empty(c) == Cardinality(c) = 0

\* Clause.is_tautology
is_tautology(c) == \E l \in c : negate(l) \in c

-----------------------------------------------------------------------------
(* Formula: a tagged tree *)

Atom(name) == <<"atom", name>>
Negation(f) == <<"neg", f>>
Conjunction(l, r) == <<"conj", l, r>>
Disjunction(l, r) == <<"disj", l, r>>
Implication(a, c) == <<"impl", a, c>>
Biconditional(l, r) == <<"bicon", l, r>>

\* the pairwise unions of the distributive law, every one of them kept
DistributeUnfiltered(L, R) == {lc \cup rc : lc \in L, rc \in R}

\* Disjunction.to_cnf after both sides are converted: pairwise unions, tautologies skipped
Distribute(L, R) == {c \in {lc \cup rc : lc \in L, rc \in R} : ~is_tautology(c)}

\* Negation.to_cnf, De Morgan: the formula converted in place of the negated conjunction
DeMorganConjunctionSwapped(l, r) == Conjunction(Negation(l), Negation(r))
DeMorganConjunction(l, r) == Disjunction(Negation(l), Negation(r))

\* to_cnf of every Formula subclass; a CNF is its set of clauses
RECURSIVE to_cnf(_)
to_cnf(f) ==
    CASE f[1] = "atom" -> {{Literal(f[2], FALSE)}}
      [] f[1] = "neg" ->
            LET g == f[2] IN
           (CASE g[1] = "atom" -> {{Literal(g[2], TRUE)}}
              [] g[1] = "neg" -> to_cnf(g[2])
              [] g[1] = "conj" -> to_cnf(DeMorganConjunction(g[2], g[3]))
              [] g[1] = "disj" -> to_cnf(Conjunction(Negation(g[2]), Negation(g[3])))
              [] g[1] = "impl" -> to_cnf(Conjunction(g[2], Negation(g[3])))
              [] g[1] = "bicon" ->
                    to_cnf(Disjunction(Conjunction(g[2], Negation(g[3])),
                                       Conjunction(Negation(g[2]), g[3]))))
      [] f[1] = "conj" -> to_cnf(f[2]) \cup to_cnf(f[3])
      [] f[1] = "disj" -> Distribute(to_cnf(f[2]), to_cnf(f[3]))
      [] f[1] = "impl" -> to_cnf(Disjunction(Negation(f[2]), f[3]))
      [] f[1] = "bicon" ->
            to_cnf(Conjunction(Implication(f[2], f[3]), Implication(f[3], f[2])))

-----------------------------------------------------------------------------
(* Resolution *)

\* resolve(clause1, clause2): every non-tautological resolvent of the two clauses
resolve(c1, c2) ==
    {r \in {(c1 \ {l1}) \cup (c2 \ {l2}) :
                <<l1, l2>> \in {x \in c1 \X c2 : x[1][1] = x[2][1] /\ x[1][2] # x[2][2]}} :
        ~is_tautology(r)}

\* the resolvents of a round that pairs the frontier with itself only
FrontierResolvents(cs, ns) ==
    UNION {resolve(pr[1], pr[2]) : pr \in {x \in ns \X ns : x[1] # x[2]}}

\* the resolvents of one round: every accumulated clause against every frontier clause
Resolvents(cs, ns) ==
    UNION {resolve(pr[1], pr[2]) : pr \in {x \in cs \X ns : x[1] # x[2]}}

\* an iteration that collects every resolvent, those already accumulated too, and stops
\* only when there is none
ResolutionRoundUnfiltered(cs, ns) ==
    LET rs == Resolvents(cs, ns)
    IN  IF \E r \in rs : is_empty(r)
        THEN [done |-> TRUE, result |-> TRUE, clauses |-> cs, new_clauses |-> ns]
        ELSE IF rs = {}
        THEN [done |-> TRUE, result |-> FALSE, clauses |-> cs, new_clauses |-> rs]
        ELSE [done |-> FALSE, result |-> FALSE, clauses |-> cs \cup rs, new_clauses |-> rs]

\* one iteration of the while loop of resolution()
ResolutionRound(cs, ns) ==
    LET rs == Resolvents(cs, ns)
        fresh == rs \ cs
    IN  IF \E r \in rs : is_empty(r)
        THEN [done |-> TRUE, result |-> TRUE, clauses |-> cs, new_clauses |-> ns]
        ELSE IF fresh = {}
        THEN [done |-> TRUE, result |-> FALSE, clauses |-> cs, new_clauses |-> fresh]
        ELSE [done |-> FALSE, result |-> FALSE, clauses |-> cs \cup fresh, new_clauses |-> fresh]

RECURSIVE ResolutionLoop(_, _)
ResolutionLoop(cs, ns) ==
    LET s == ResolutionRound(cs, ns)
    IN  IF s.done THEN s.result ELSE ResolutionLoop(s.clauses, s.new_clauses)

\* resolution(clauses): TRUE when the empty clause is derived
resolution(cs) == ResolutionLoop(cs, cs)

-----------------------------------------------------------------------------
(* Truth tables: the meaning the claims are measured against *)

Assignments == SUBSET Atoms

RECURSIVE Holds(_, _)
Holds(f, v) ==
    CASE f[1] = "atom" -> f[2] \in v
      [] f[1] = "neg" -> ~Holds(f[2], v)
      [] f[1] = "conj" -> Holds(f[2], v) /\ Holds(f[3], v)
      [] f[1] = "disj" -> Holds(f[2], v) \/ Holds(f[3], v)
      [] f[1] = "impl" -> Holds(f[2], v) => Holds(f[3], v)
      [] f[1] = "bicon" -> Holds(f[2], v) <=> Holds(f[3], v)

LiteralHolds(l, v) == (l[1] \in v) # l[2]
ClauseHolds(c, v) == \E l \in c : LiteralHolds(l, v)
ClausesHold(cs, v) == \A c \in cs : ClauseHolds(c, v)
Unsatisfiable(cs) == \A v \in Assignments : ~ClausesHold(cs, v)

-----------------------------------------------------------------------------
(* Formula equality: __eq__ of the Formula subclasses, commutative for the  *)
(* symmetric connectives                                                    *)

\* the comparison of the operands in the order given only
OrderedMatch(ll, rr, lr, rl) == ll /\ rr

\* Conjunction/Disjunction/Biconditional.__eq__: the operands match in either order
CommutativeMatch(ll, rr, lr, rl) == (ll /\ rr) \/ (lr /\ rl)

RECURSIVE FormulaEq(_, _)
FormulaEq(f, g) ==
    IF f[1] # g[1] THEN FALSE
    ELSE CASE f[1] = "atom" -> f[2] = g[2]
           [] f[1] = "neg" -> FormulaEq(f[2], g[2])
           [] f[1] = "impl" -> FormulaEq(f[2], g[2]) /\ FormulaEq(f[3], g[3])
           [] OTHER -> CommutativeMatch(FormulaEq(f[2], g[2]), FormulaEq(f[3], g[3]),
                                        FormulaEq(f[2], g[3]), FormulaEq(f[3], g[2]))

\* __hash__ of the Formula subclasses: Python's hash() is a function of the value hashed,
\* so the value each __hash__ builds stands for its hash; frozenset is a set
RECURSIVE FormulaHash(_)
FormulaHash(f) ==
    CASE f[1] = "atom" -> <<"atom", f[2]>>
      [] f[1] = "neg" -> <<"neg", FormulaHash(f[2])>>
      [] f[1] = "impl" -> <<"impl", FormulaHash(f[2]), FormulaHash(f[3])>>
      [] OTHER -> <<f[1], {FormulaHash(f[2]), FormulaHash(f[3])}>>

-----------------------------------------------------------------------------
(* BeliefBase: the dict is a sequence of <<formula, priority>> in insertion *)
(* order, its keys pairwise different under FormulaEq                       *)

\* formula in self.beliefs
HasBelief(B, f) == \E i \in DOMAIN B : FormulaEq(B[i][1], f)

\* add_belief written as dict.setdefault: an existing key keeps the priority it had
add_belief_setdefault(B, f, p) ==
    IF HasBelief(B, f) THEN B ELSE Append(B, <<f, p>>)

\* add_belief written as a deletion followed by an insertion: an overwritten key moves
\* to the end
add_belief_reinserting(B, f, p) ==
    Append(SelectSeq(B, LAMBDA e : ~FormulaEq(e[1], f)), <<f, p>>)

\* BeliefBase.add_belief: an existing key keeps its place and its key object
add_belief(B, f, p) ==
    IF HasBelief(B, f)
    THEN [i \in DOMAIN B |-> IF FormulaEq(B[i][1], f) THEN <<B[i][1], p>> ELSE B[i]]
    ELSE Append(B, <<f, p>>)

\* BeliefBase.remove_belief
remove_belief(B, f) == SelectSeq(B, LAMBDA e : ~FormulaEq(e[1], f))

\* BeliefBase.get_beliefs
get_beliefs(B) == [i \in DOMAIN B |-> B[i][1]]

\* BeliefBase.get_priority
get_priority(B, f) ==
    IF HasBelief(B, f) THEN B[CHOOSE i \in DOMAIN B : FormulaEq(B[i][1], f)][2] ELSE 0

\* entails with the query added as it is, not negated
entails_unnegated(B, f) ==
    resolution(UNION {to_cnf(B[i][1]) : i \in DOMAIN B} \cup to_cnf(f))

\* BeliefBase.entails
entails(B, f) ==
    resolution(UNION {to_cnf(B[i][1]) : i \in DOMAIN B} \cup to_cnf(Negation(f)))

\* the dict built for bitmask i, the position stored where the priority belongs
SubsetOfMaskPositions(B, i) ==
    LET idx == {j \in DOMAIN B : (i \div (2 ^ (j - 1))) % 2 = 1}
        nth(k) == CHOOSE j \in idx : Cardinality({m \in idx : m <= j}) = k
    IN  [k \in 1..Cardinality(idx) |-> <<B[nth(k)][1], nth(k) - 1>>]

\* the dict built for bitmask i (lines 423-426): the entries whose bit is set, in order
SubsetOfMask(B, i) ==
    LET idx == {j \in DOMAIN B : (i \div (2 ^ (j - 1))) % 2 = 1}
        nth(k) == CHOOSE j \in idx : Cardinality({m \in idx : m <= j}) = k
    IN  [k \in 1..Cardinality(idx) |-> B[nth(k)]]

\* dict equality: the same keys with the same values
DictEq(d1, d2) ==
    /\ Len(d1) = Len(d2)
    /\ \A i \in DOMAIN d1 : \E j \in DOMAIN d2 : FormulaEq(d1[i][1], d2[j][1]) /\ d1[i][2] = d2[j][2]

\* set(subset1.keys()).issubset(set(subset2.keys()))
KeysSubset(d1, d2) == \A i \in DOMAIN d1 : HasBelief(d2, d1[i][1])

\* the search with the subset test of line 446 the other way round: a subset is dropped
\* when it holds another non-entailing subset, so the minimal ones are kept
MinimalAmong(B, f, count) ==
    LET subsets == [i \in 1..count |-> SubsetOfMask(B, i - 1)]
        non_entailing_subsets == SelectSeq(subsets, LAMBDA s : ~entails(s, f))
        is_minimal(s1) ==
            \A k \in DOMAIN non_entailing_subsets :
                ~(~DictEq(s1, non_entailing_subsets[k])
                  /\ KeysSubset(non_entailing_subsets[k], s1))
    IN  SelectSeq(non_entailing_subsets, is_minimal)

\* BeliefBase._find_maximal_non_entailing_subsets over the first `count` bitmasks
MaximalAmong(B, f, count) ==
    LET subsets == [i \in 1..count |-> SubsetOfMask(B, i - 1)]
        non_entailing_subsets == SelectSeq(subsets, LAMBDA s : ~entails(s, f))
        is_maximal(s1) ==
            \A k \in DOMAIN non_entailing_subsets :
                ~(~DictEq(s1, non_entailing_subsets[k])
                  /\ KeysSubset(s1, non_entailing_subsets[k]))
    IN  SelectSeq(non_entailing_subsets, is_maximal)

\* the maximal subsets with the filter of line 437 inverted: the entailing ones are kept
find_maximal_entailing_subsets(B, f) ==
    LET subsets == [i \in 1..(2 ^ Len(B)) |-> SubsetOfMask(B, i - 1)]
        entailing_subsets == SelectSeq(subsets, LAMBDA s : entails(s, f))
        is_maximal(s1) ==
            \A k \in DOMAIN entailing_subsets :
                ~(~DictEq(s1, entailing_subsets[k]) /\ KeysSubset(s1, entailing_subsets[k]))
    IN  SelectSeq(entailing_subsets, is_maximal)

\* the maximal subsets with the filter of line 437 testing membership of the formula
\* in the subset, not entailment
find_maximal_subsets_without_formula(B, f) ==
    LET subsets == [i \in 1..(2 ^ Len(B)) |-> SubsetOfMask(B, i - 1)]
        kept == SelectSeq(subsets, LAMBDA s : ~HasBelief(s, f))
        is_maximal(s1) ==
            \A k \in DOMAIN kept : ~(~DictEq(s1, kept[k]) /\ KeysSubset(s1, kept[k]))
    IN  SelectSeq(kept, is_maximal)

\* BeliefBase._find_maximal_non_entailing_subsets: the list it returns
find_maximal_non_entailing_subsets(B, f) == MaximalAmong(B, f, 2 ^ Len(B))

RECURSIVE SumSeq(_, _)
SumSeq(s, i) == IF i > Len(s) THEN 0 ELSE s[i][2] + SumSeq(s, i + 1)

\* the score of a subset (line 465)
Score(subset) == SumSeq(subset, 1)

\* _select_best_subset sorting in ascending order: the earliest subset of the lowest score
select_worst_subset(subsets) ==
    IF Len(subsets) = 0 THEN <<>>
    ELSE subsets[CHOOSE i \in DOMAIN subsets :
                    /\ \A j \in DOMAIN subsets : Score(subsets[j]) >= Score(subsets[i])
                    /\ \A j \in 1..(i - 1) : Score(subsets[j]) > Score(subsets[i])]

\* _select_best_subset keeping, among the subsets of the highest score, the one found last
select_last_best_subset(subsets) ==
    IF Len(subsets) = 0 THEN <<>>
    ELSE subsets[CHOOSE i \in DOMAIN subsets :
                    /\ \A j \in DOMAIN subsets : Score(subsets[j]) <= Score(subsets[i])
                    /\ \A j \in (i + 1)..Len(subsets) : Score(subsets[j]) < Score(subsets[i])]

\* BeliefBase._select_best_subset: the stable descending sort puts first the earliest
\* subset of the highest score
select_best_subset(subsets) ==
    IF Len(subsets) = 0 THEN <<>>
    ELSE subsets[CHOOSE i \in DOMAIN subsets :
                    /\ \A j \in DOMAIN subsets : Score(subsets[j]) <= Score(subsets[i])
                    /\ \A j \in 1..(i - 1) : Score(subsets[j]) < Score(subsets[i])]

\* contract without the vacuity check, its search stopping short of the full set
contract_proper_subsets(B, f) ==
    LET maximal_subsets == MaximalAmong(B, f, 2 ^ Len(B) - 1)
    IN  IF Len(maximal_subsets) = 0 THEN B
        ELSE select_best_subset(maximal_subsets)

\* contract without the check of lines 403-404 for an empty list of maximal subsets
contract_without_empty_check(B, f) ==
    IF ~entails(B, f) THEN B
    ELSE select_best_subset(find_maximal_non_entailing_subsets(B, f))

\* BeliefBase.contract: the dict held after the call
contract(B, f) ==
    IF ~entails(B, f) THEN B
    ELSE LET maximal_subsets == find_maximal_non_entailing_subsets(B, f)
         IN  IF Len(maximal_subsets) = 0 THEN B
             ELSE select_best_subset(maximal_subsets)

\* BeliefBase.expand
expand(B, f, p) == add_belief(B, f, p)

\* revise contracting by the formula itself, not by its negation
revise_unnegated(B, f, p) == add_belief(contract(B, f), f, p)

\* revise adding the formula with no contraction before it
revise_without_contraction(B, f, p) == expand(B, f, p)

\* BeliefBase.revise
revise(B, f, p) == expand(contract(B, Negation(f)), f, p)

\* the record of a call: its name, its arguments, the dict before it, the value returned
Call(op, f, p, pre, ret) == [op |-> op, f |-> f, p |-> p, pre |-> pre, ret |-> ret]
NoCall == Call("init", <<>>, 0, <<>>, FALSE)

-----------------------------------------------------------------------------
(* Inputs *)

Literals == {Literal(a, n) : a \in Atoms, n \in BOOLEAN}
AllClauses == SUBSET Literals
ClauseSets == {cs \in SUBSET AllClauses : Cardinality(cs) <= MaxInputClauses}

RECURSIVE FormulasOfSize(_)
FormulasOfSize(n) ==
    IF n = 0 THEN {Atom(a) : a \in Atoms}
    ELSE {Negation(f) : f \in FormulasOfSize(n - 1)}
         \cup UNION {UNION {{Conjunction(l, r), Disjunction(l, r),
                             Implication(l, r), Biconditional(l, r)} :
                                l \in FormulasOfSize(k), r \in FormulasOfSize(n - 1 - k)} :
                        k \in 0..(n - 1)}
CnfInputs == UNION {FormulasOfSize(n) : n \in 0..MaxConnectives}

P == Atom("p")
Q == Atom("q")
\* formulas given to expand, revise and remove_belief
BeliefInputs ==
    {P, Negation(P), Implication(P, Q), Conjunction(P, Q), Conjunction(Q, P),
     Conjunction(P, Negation(P))}
\* formulas given to contract, entails and remove_belief
QueryInputs ==
    BeliefInputs \cup {Q, Disjunction(P, Negation(P)), Negation(Negation(P))}
\* priorities given to add_belief, expand and revise
Priorities == {1, 2}

-----------------------------------------------------------------------------
(* Resolution as a process: one action per way an iteration of the loop ends *)

ResIdle == /\ clauses = {} /\ new_clauses = {} /\ res_pc = "idle"
           /\ res_out = "none" /\ res_in = {}
CnfIdle == cnf_pc = "idle" /\ cnf_in = <<>> /\ cnf_out = {}
BaseIdle == beliefs = <<>> /\ last = NoCall
EqIdle == eq_pc = "idle" /\ eq_a = <<>> /\ eq_b = <<>> /\ eq_out = <<>>
ParseIdle == /\ formula_str = <<>> /\ tokens = <<>> /\ scan_i = 0
             /\ parse_pc = "idle" /\ parse_in = <<>> /\ parse_out = <<>>

InitRes ==
    /\ res_in \in ClauseSets
    /\ clauses = res_in
    /\ new_clauses = res_in
    /\ res_pc = "loop"
    /\ res_out = "none"
    /\ CnfIdle /\ BaseIdle /\ EqIdle /\ ParseIdle

\* line 67: a resolvent is the empty clause
ReturnUnsatisfiable ==
    /\ res_pc = "loop"
    /\ ResolutionRound(clauses, new_clauses).done
    /\ ResolutionRound(clauses, new_clauses).result
    /\ res_pc' = "done"
    /\ res_out' = TRUE
    /\ UNCHANGED <<clauses, new_clauses, res_in, beliefs, last, cnf_pc, cnf_in, cnf_out, EqVars, ParseVars>>

\* line 75: the round added nothing
ReturnSatisfiable ==
    /\ res_pc = "loop"
    /\ ResolutionRound(clauses, new_clauses).done
    /\ ~ResolutionRound(clauses, new_clauses).result
    /\ res_pc' = "done"
    /\ res_out' = FALSE
    /\ new_clauses' = ResolutionRound(clauses, new_clauses).new_clauses
    /\ UNCHANGED <<clauses, res_in, beliefs, last, cnf_pc, cnf_in, cnf_out, EqVars, ParseVars>>

\* line 78: the new clauses join the accumulated set and the loop goes round again
AddResolvents ==
    /\ res_pc = "loop"
    /\ ~ResolutionRound(clauses, new_clauses).done
    /\ clauses' = ResolutionRound(clauses, new_clauses).clauses
    /\ new_clauses' = ResolutionRound(clauses, new_clauses).new_clauses
    /\ UNCHANGED <<res_pc, res_out, res_in, beliefs, last, cnf_pc, cnf_in, cnf_out, EqVars, ParseVars>>

NextRes == ReturnUnsatisfiable \/ ReturnSatisfiable \/ AddResolvents

SpecRes == InitRes /\ [][NextRes]_vars

\* the call runs on: an iteration that can be taken is taken
SpecResFair == SpecRes /\ WF_vars(NextRes)

-----------------------------------------------------------------------------
(* CNF conversion of a chosen formula *)

InitCnf ==
    /\ cnf_in \in CnfInputs
    /\ cnf_pc = "call"
    /\ cnf_out = {}
    /\ ResIdle /\ BaseIdle /\ EqIdle /\ ParseIdle

ConvertToCnf ==
    /\ cnf_pc = "call"
    /\ cnf_pc' = "done"
    /\ cnf_out' = to_cnf(cnf_in)
    /\ UNCHANGED <<cnf_in, beliefs, last, clauses, new_clauses, res_pc, res_out, res_in,
                   EqVars, ParseVars>>

NextCnf == ConvertToCnf

SpecCnf == InitCnf /\ [][NextCnf]_vars

-----------------------------------------------------------------------------
(* __eq__ and __hash__ of the formulas built from two chosen operands *)

EqInputs == UNION {FormulasOfSize(n) : n \in 0..MaxOperandConnectives}

InitEq ==
    /\ eq_a \in EqInputs
    /\ eq_b \in EqInputs
    /\ eq_pc = "call"
    /\ eq_out = <<>>
    /\ ResIdle /\ CnfIdle /\ BaseIdle /\ ParseIdle

\* X(A, B) == X(B, A) and hash(X(A, B)) == hash(X(B, A)) for each binary connective X,
\* and A == B
CompareFormulas ==
    /\ eq_pc = "call"
    /\ eq_pc' = "done"
    /\ eq_out' =
          [conj |-> FormulaEq(Conjunction(eq_a, eq_b), Conjunction(eq_b, eq_a)),
           disj |-> FormulaEq(Disjunction(eq_a, eq_b), Disjunction(eq_b, eq_a)),
           bicon |-> FormulaEq(Biconditional(eq_a, eq_b), Biconditional(eq_b, eq_a)),
           impl |-> FormulaEq(Implication(eq_a, eq_b), Implication(eq_b, eq_a)),
           operands |-> FormulaEq(eq_a, eq_b),
           conj_hash |-> FormulaHash(Conjunction(eq_a, eq_b))
                            = FormulaHash(Conjunction(eq_b, eq_a)),
           disj_hash |-> FormulaHash(Disjunction(eq_a, eq_b))
                            = FormulaHash(Disjunction(eq_b, eq_a)),
           bicon_hash |-> FormulaHash(Biconditional(eq_a, eq_b))
                            = FormulaHash(Biconditional(eq_b, eq_a)),
           impl_hash |-> FormulaHash(Implication(eq_a, eq_b))
                            = FormulaHash(Implication(eq_b, eq_a))]
    /\ UNCHANGED <<eq_a, eq_b, beliefs, last, clauses, new_clauses, res_pc, res_out, res_in,
                   cnf_pc, cnf_in, cnf_out, ParseVars>>

NextEq == CompareFormulas

SpecEq == InitEq /\ [][NextEq]_vars

-----------------------------------------------------------------------------
(* FormulaParser: a string is a sequence of characters, a character outside  *)
(* ASCII written as its code point; tokenize() rewrites the arrows, scans the *)
(* string one character position at a time, and the recursive-descent parser  *)
(* reads the token list                                                       *)

\* str.isalnum() or '_' over the characters of the inputs
WordChars ==
    {"a", "b", "c", "d", "e", "f", "g", "h", "i", "j", "k", "l", "m", "n", "o", "p", "q", "r", "s", "t", "u", "v", "w", "x", "y", "z"}
    \cup {"A", "B", "C", "D", "E", "F", "G", "H", "I", "J", "K", "L", "M", "N", "O", "P", "Q", "R", "S", "T", "U", "V", "W", "X", "Y", "Z"}
    \cup {"0", "1", "2", "3", "4", "5", "6", "7", "8", "9", "_"}

\* str.replace(pat, rep): the occurrences of pat from left to right, not overlapping
RECURSIVE Replace(_, _, _)
Replace(str, pat, rep) ==
    IF Len(str) < Len(pat) THEN str
    ELSE IF SubSeq(str, 1, Len(pat)) = pat
    THEN rep \o Replace(SubSeq(str, Len(pat) + 1, Len(str)), pat, rep)
    ELSE <<str[1]>> \o Replace(Tail(str), pat, rep)

ImpliesWord == <<"I", "M", "P", "L", "I", "E", "S">>
BiconditionalWord == <<"B", "I", "C", "O", "N", "D", "I", "T", "I", "O", "N", "A", "L">>

\* the four replace calls of tokenize() (lines 535-541), in their order
Preprocessed(str) ==
    LET s1 == Replace(str, <<"-", ">">>, <<" ">> \o ImpliesWord \o <<" ">>)
        s2 == Replace(s1, <<"<", "-", ">">>, <<" ">> \o BiconditionalWord \o <<" ">>)
        s3 == Replace(s2, <<"=", ">">>, <<" ">> \o ImpliesWord \o <<" ">>)
    IN  Replace(s3, <<"<", "=", ">">>, <<" ">> \o BiconditionalWord \o <<" ">>)

\* the characters of a slice put together into the string of a token
RECURSIVE Join(_)
Join(cs) == IF cs = <<>> THEN "" ELSE cs[1] \o Join(Tail(cs))

\* the index after the run of word characters that starts at index i (from 0)
RECURSIVE WordEnd(_, _)
WordEnd(str, i) ==
    IF i < Len(str) /\ str[i + 1] \in WordChars THEN WordEnd(str, i + 1) ELSE i

\* formula_str[i:i+n] == word
SliceIs(str, i, word) ==
    /\ i + Len(word) <= Len(str)
    /\ SubSeq(str, i + 1, i + Len(word)) = word

\* one iteration of the while loop of tokenize() at index i (from 0): the index after it
\* and the tokens appended
ScanStep(str, i) ==
    LET char == str[i + 1]
        next_is(c) == i + 1 < Len(str) /\ str[i + 2] = c
    IN  IF char = " " THEN [i |-> i + 1, toks |-> <<>>]
        ELSE IF char \in {"(", ")"} THEN [i |-> i + 1, toks |-> <<char>>]
        ELSE IF char \in {"!", "~", "U+00AC", "-"} THEN [i |-> i + 1, toks |-> <<"!">>]
        ELSE IF char = "&"
        THEN [i |-> IF next_is("&") THEN i + 2 ELSE i + 1, toks |-> <<"&">>]
        ELSE IF char = "|"
        THEN [i |-> IF next_is("|") THEN i + 2 ELSE i + 1, toks |-> <<"|">>]
        ELSE IF i + 7 < Len(str) /\ SliceIs(str, i, ImpliesWord)
        THEN [i |-> i + 7, toks |-> <<"->">>]
        ELSE IF i + 13 < Len(str) /\ SliceIs(str, i, BiconditionalWord)
        THEN [i |-> i + 13, toks |-> <<"<->">>]
        ELSE IF char \in WordChars
        THEN [i |-> WordEnd(str, i),
              toks |-> <<Join(SubSeq(str, i + 1, WordEnd(str, i)))>>]
        ELSE IF char = "U+2192" THEN [i |-> i + 1, toks |-> <<"->">>]
        ELSE IF char = "U+2194" THEN [i |-> i + 1, toks |-> <<"<->">>]
        ELSE IF char = "U+2227" THEN [i |-> i + 1, toks |-> <<"&">>]
        ELSE IF char = "U+2228" THEN [i |-> i + 1, toks |-> <<"|">>]
        ELSE [i |-> i + 1, toks |-> <<>>]

\* the parser's position after a step: the formula built and the index self.current;
\* a raised ValueError is carried as the formula <<"error", message>>
Parsed(f, current) == [f |-> f, current |-> current]
Raised(r) == r.f[1] = "error"
ValueError(msg, current) == Parsed(<<"error", msg>>, current)

\* FormulaParser.match: whether the current token is the expected one
match(toks, current, expected) == current < Len(toks) /\ toks[current + 1] = expected

RECURSIVE parse_biconditional(_, _), biconditional_loop(_, _),
          parse_implication(_, _), implication_loop(_, _),
          parse_disjunction(_, _), disjunction_loop(_, _),
          parse_conjunction(_, _), conjunction_loop(_, _),
          parse_negation(_, _), parse_primary(_, _)

\* FormulaParser.parse_primary
parse_primary(toks, current) ==
    IF match(toks, current, "(")
    THEN LET expr == parse_biconditional(toks, current + 1)
         IN  IF Raised(expr) THEN expr
             ELSE IF ~match(toks, expr.current, ")")
             THEN ValueError("Expected closing parenthesis", expr.current)
             ELSE Parsed(expr.f, expr.current + 1)
    ELSE IF current >= Len(toks)
    THEN ValueError("Unexpected end of input", current + 1)
    ELSE Parsed(Atom(toks[current + 1]), current + 1)

\* FormulaParser.parse_negation
parse_negation(toks, current) ==
    IF match(toks, current, "!")
    THEN LET r == parse_negation(toks, current + 1)
         IN  IF Raised(r) THEN r ELSE Parsed(Negation(r.f), r.current)
    ELSE parse_primary(toks, current)

\* the while loop of parse_conjunction, left holding the formula built so far
conjunction_loop(toks, left) ==
    IF Raised(left) \/ ~match(toks, left.current, "&") THEN left
    ELSE LET right == parse_negation(toks, left.current + 1)
         IN  IF Raised(right) THEN right
             ELSE conjunction_loop(toks, Parsed(Conjunction(left.f, right.f), right.current))

\* FormulaParser.parse_conjunction
parse_conjunction(toks, current) == conjunction_loop(toks, parse_negation(toks, current))

\* the while loop of parse_disjunction
disjunction_loop(toks, left) ==
    IF Raised(left) \/ ~match(toks, left.current, "|") THEN left
    ELSE LET right == parse_conjunction(toks, left.current + 1)
         IN  IF Raised(right) THEN right
             ELSE disjunction_loop(toks, Parsed(Disjunction(left.f, right.f), right.current))

\* FormulaParser.parse_disjunction
parse_disjunction(toks, current) == disjunction_loop(toks, parse_conjunction(toks, current))

\* the while loop of parse_implication
implication_loop(toks, left) ==
    IF Raised(left) \/ ~match(toks, left.current, "->") THEN left
    ELSE LET right == parse_disjunction(toks, left.current + 1)
         IN  IF Raised(right) THEN right
             ELSE implication_loop(toks, Parsed(Implication(left.f, right.f), right.current))

\* FormulaParser.parse_implication
parse_implication(toks, current) == implication_loop(toks, parse_disjunction(toks, current))

\* the while loop of parse_biconditional
biconditional_loop(toks, left) ==
    IF Raised(left) \/ ~match(toks, left.current, "<->") THEN left
    ELSE LET right == parse_implication(toks, left.current + 1)
         IN  IF Raised(right) THEN right
             ELSE biconditional_loop(toks,
                                     Parsed(Biconditional(left.f, right.f), right.current))

\* FormulaParser.parse_biconditional
parse_biconditional(toks, current) ==
    biconditional_loop(toks, parse_implication(toks, current))

\* the spellings of the docstring of parse(), its example, the string parsed by main(),
\* and two strings that end early
StrBiconArrow == <<"a", " ", "<", "-", ">", " ", "b">>
StrBiconDouble == <<"a", " ", "<", "=", ">", " ", "b">>
StrBiconWord == <<"a", " ", "i", "f", "f", " ", "b">>
StrBiconSymbol == <<"a", " ", "U+2194", " ", "b">>
StrImplArrow == <<"a", " ", "-", ">", " ", "b">>
StrImplDouble == <<"a", " ", "=", ">", " ", "b">>
StrImplWord == <<"a", " ", "i", "m", "p", "l", "i", "e", "s", " ", "b">>
StrImplSymbol == <<"a", " ", "U+2192", " ", "b">>
StrConjWord == <<"a", " ", "a", "n", "d", " ", "b">>
StrDisjWord == <<"a", " ", "o", "r", " ", "b">>
StrConjAmp == <<"a", " ", "&", " ", "b">>
StrConjAmps == <<"a", " ", "&", "&", " ", "b">>
StrConjSymbol == <<"a", " ", "U+2227", " ", "b">>
StrDisjBar == <<"a", " ", "|", " ", "b">>
StrDisjBars == <<"a", " ", "|", "|", " ", "b">>
StrDisjSymbol == <<"a", " ", "U+2228", " ", "b">>
StrNegBang == <<"!", "a">>
StrNegTilde == <<"~", "a">>
StrNegMinus == <<"-", "a">>
StrNegSymbol == <<"U+00AC", "a">>
StrGrouping == <<"(", "a", " ", "&", " ", "b", ")", " ", "|", " ", "c">>
StrExample == <<"p", " ", "&", " ", "(", "q", " ", "|", " ", "!", "r", ")", " ", "-", ">", " ", "s">>
StrMainDemo == <<"r", " ", "<", "-", ">", " ", "(", "p", " ", "|", " ", "s", ")">>
StrUnclosed == <<"(", "a">>
StrEmpty == <<>>
ParseInputs ==
    {StrBiconArrow, StrBiconDouble, StrBiconWord, StrBiconSymbol,
     StrImplArrow, StrImplDouble, StrImplWord, StrImplSymbol,
     StrConjWord, StrDisjWord, StrConjAmp, StrConjAmps,
     StrConjSymbol, StrDisjBar, StrDisjBars, StrDisjSymbol,
     StrNegBang, StrNegTilde, StrNegMinus, StrNegSymbol,
     StrGrouping, StrExample, StrMainDemo, StrUnclosed,
     StrEmpty}

InitParse ==
    /\ parse_in \in ParseInputs
    /\ parse_pc = "preprocess"
    /\ formula_str = parse_in
    /\ tokens = <<>>
    /\ scan_i = 0
    /\ parse_out = <<>>
    /\ ResIdle /\ CnfIdle /\ BaseIdle /\ EqIdle

NotParseVars == <<beliefs, last, clauses, new_clauses, res_pc, res_out, res_in,
                  cnf_pc, cnf_in, cnf_out, EqVars>>

\* tokenize(), lines 533-544: the arrows are rewritten, the scan starts at index 0
Preprocess ==
    /\ parse_pc = "preprocess"
    /\ formula_str' = Preprocessed(formula_str)
    /\ scan_i' = 0
    /\ tokens' = <<>>
    /\ parse_pc' = "scan"
    /\ UNCHANGED <<parse_in, parse_out, NotParseVars>>

\* tokenize(), lines 546-622: one iteration of the while loop
TokenizeStep ==
    /\ parse_pc = "scan"
    /\ scan_i < Len(formula_str)
    /\ scan_i' = ScanStep(formula_str, scan_i).i
    /\ tokens' = tokens \o ScanStep(formula_str, scan_i).toks
    /\ UNCHANGED <<formula_str, parse_pc, parse_in, parse_out, NotParseVars>>

\* the scan is over: self.tokens is set and parse() returns parse_biconditional()
ParseTokens ==
    /\ parse_pc = "scan"
    /\ scan_i >= Len(formula_str)
    /\ parse_out' = parse_biconditional(tokens, 0).f
    /\ parse_pc' = "done"
    /\ UNCHANGED <<formula_str, tokens, scan_i, parse_in, NotParseVars>>

NextParse == Preprocess \/ TokenizeStep \/ ParseTokens

SpecParse == InitParse /\ [][NextParse]_vars

-----------------------------------------------------------------------------
(* The belief base, driven as the command loop of main() drives it: a       *)
(* command is read, the method runs to completion, its outcome is reported  *)
(* (last), and the loop returns to the prompt                               *)

Others == <<clauses, new_clauses, res_pc, res_out, res_in, cnf_pc, cnf_in, cnf_out,
            EqVars, ParseVars>>

\* BeliefBase.__init__ and the first prompt
Init ==
    /\ beliefs = <<>>
    /\ last = NoCall
    /\ ResIdle /\ CnfIdle /\ EqIdle /\ ParseIdle

AtPrompt == last = NoCall

AddBelief(f, p) ==
    /\ AtPrompt
    /\ beliefs' = add_belief(beliefs, f, p)
    /\ last' = Call("add_belief", f, p, beliefs, FALSE)
    /\ UNCHANGED Others

Expand(f, p) ==
    /\ AtPrompt
    /\ beliefs' = expand(beliefs, f, p)
    /\ last' = Call("expand", f, p, beliefs, FALSE)
    /\ UNCHANGED Others

RemoveBelief(f) ==
    /\ AtPrompt
    /\ beliefs' = remove_belief(beliefs, f)
    /\ last' = Call("remove_belief", f, 0, beliefs, FALSE)
    /\ UNCHANGED Others

Entails(f) ==
    /\ AtPrompt
    /\ last' = Call("entails", f, 0, beliefs, entails(beliefs, f))
    /\ UNCHANGED beliefs
    /\ UNCHANGED Others

Contract(f) ==
    /\ AtPrompt
    /\ beliefs' = contract(beliefs, f)
    /\ last' = Call("contract", f, 0, beliefs, FALSE)
    /\ UNCHANGED Others

Revise(f, p) ==
    /\ AtPrompt
    /\ beliefs' = revise(beliefs, f, p)
    /\ last' = Call("revise", f, p, beliefs, FALSE)
    /\ UNCHANGED Others

\* the outcome has been printed; the loop reads the next command
NextCommand ==
    /\ ~AtPrompt
    /\ last' = NoCall
    /\ UNCHANGED beliefs
    /\ UNCHANGED Others

\* the base holds at most MaxBeliefs beliefs
Fits(B) == Len(B) <= MaxBeliefs

\* expand and revise, taken while the result fits the bound
BoundedExpand(f, p) == Expand(f, p) /\ Fits(beliefs')
BoundedRevise(f, p) == Revise(f, p) /\ Fits(beliefs')

Next ==
    \/ \E f \in BeliefInputs, p \in Priorities : BoundedExpand(f, p)
    \/ \E f \in QueryInputs : RemoveBelief(f)
    \/ \E f \in QueryInputs : Entails(f)
    \/ \E f \in QueryInputs : Contract(f)
    \/ \E f \in BeliefInputs, p \in Priorities : BoundedRevise(f, p)
    \/ NextCommand

Spec == Init /\ [][Next]_vars

-----------------------------------------------------------------------------
(* contract(F) followed at once by expand(F, p): the record of the expansion keeps the  *)
(* dict held before the contraction                                                     *)

ExpandBack(p) ==
    /\ last.op = "contract"
    /\ last.f \in BeliefInputs
    /\ beliefs' = expand(beliefs, last.f, p)
    /\ Fits(beliefs')
    /\ last' = Call("contract_expand", last.f, p, last.pre, FALSE)
    /\ UNCHANGED Others

NextRecovery ==
    \/ \E f \in BeliefInputs, p \in Priorities : BoundedExpand(f, p)
    \/ \E f \in BeliefInputs : Contract(f)
    \/ \E p \in Priorities : ExpandBack(p)
    \/ NextCommand

SpecRecovery == Init /\ [][NextRecovery]_vars

-----------------------------------------------------------------------------
(* The command loop given expand and contract commands only: expansions build *)
(* every base of the bound, each is contracted by every query formula         *)

NextContraction ==
    \/ \E f \in BeliefInputs, p \in Priorities : BoundedExpand(f, p)
    \/ \E f \in QueryInputs : Contract(f)
    \/ NextCommand

SpecContraction == Init /\ [][NextContraction]_vars

-----------------------------------------------------------------------------
(* example.py: the calls of the script, taken in any order *)

Bird == Atom("bird")
Fly == Atom("fly")
Penguin == Atom("penguin")
Tweety == Atom("tweety")
\* parser.parse("bird -> fly"), parse("penguin -> bird"), parse("penguin -> !fly")
BirdFly == Implication(Bird, Fly)
PenguinBird == Implication(Penguin, Bird)
PenguinNotFly == Implication(Penguin, Negation(Fly))
PenguinFly == Implication(Penguin, Fly)
TweetyPenguin == Implication(Tweety, Penguin)
TweetyFly == Implication(Tweety, Fly)

\* the add_belief calls of the script
PenguinBeliefs ==
    {<<BirdFly, 1>>, <<PenguinBird, 2>>, <<PenguinNotFly, 3>>, <<TweetyPenguin, 4>>}
\* the formulas the script asks entails() about
PenguinQueries ==
    {BirdFly, PenguinFly, PenguinNotFly, Implication(Tweety, Bird), TweetyFly,
     Implication(Tweety, Negation(Fly)), TweetyPenguin}
\* the base the script holds when it asks about penguins
PenguinBase == <<<<BirdFly, 1>>, <<PenguinBird, 2>>, <<PenguinNotFly, 3>>>>

NextPenguin ==
    \/ \E e \in PenguinBeliefs : AddBelief(e[1], e[2])
    \/ \E f \in PenguinQueries : Entails(f)
    \/ Revise(TweetyFly, 5)
    \/ NextCommand

SpecPenguin == Init /\ [][NextPenguin]_vars

-----------------------------------------------------------------------------
(* comprehensive_example.py: the calls of the script, taken in any order *)

Rain == Atom("rain")
Wet == Atom("wet")
Sprinkler == Atom("sprinkler")
\* parser.parse("rain -> wet"), parse("sprinkler -> wet"), parse("!rain"),
\* parse("wet -> (rain | sprinkler)")
RainWet == Implication(Rain, Wet)
SprinklerWet == Implication(Sprinkler, Wet)
NotRain == Negation(Rain)
WetRainOrSprinkler == Implication(Wet, Disjunction(Rain, Sprinkler))

\* the add_belief calls of the script
SprinklerBeliefs ==
    {<<RainWet, 3>>, <<SprinklerWet, 2>>, <<NotRain, 1>>, <<Wet, 4>>,
     <<WetRainOrSprinkler, 5>>}
\* the formulas the script asks entails() about
SprinklerQueries == {Wet, Sprinkler}
\* the base after the first three add_belief calls, and after all five
SprinklerBase == <<<<RainWet, 3>>, <<SprinklerWet, 2>>, <<NotRain, 1>>>>
SprinklerBaseWet == SprinklerBase \o <<<<Wet, 4>>, <<WetRainOrSprinkler, 5>>>>
\* the base after belief_base.revise(parser.parse("rain"), priority=6)
SprinklerBaseRevised == revise(SprinklerBaseWet, Rain, 6)

NextSprinkler ==
    \/ \E e \in SprinklerBeliefs : AddBelief(e[1], e[2])
    \/ \E f \in SprinklerQueries : Entails(f)
    \/ Revise(Rain, 6)
    \/ Contract(Wet)
    \/ NextCommand

SpecSprinkler == Init /\ [][NextSprinkler]_vars

-----------------------------------------------------------------------------
(* What the claims are measured against: truth-table entailment from a     *)
(* dict's keys, and the non-entailing subsets of a dict by index set        *)

Valid(f) == \A v \in Assignments : Holds(f, v)
Models(B, v) == \A i \in DOMAIN B : Holds(B[i][1], v)
SemEntails(B, f) == \A v \in Assignments : Models(B, v) => Holds(f, v)
Consistent(B) == \E v \in Assignments : Models(B, v)

\* every entry of d is an entry of B: the same key object with the same priority
SubDict(d, B) == \A i \in DOMAIN d : \E j \in DOMAIN B : d[i] = B[j]

IndexEntails(B, I, f) ==
    \A v \in Assignments : (\A i \in I : Holds(B[i][1], v)) => Holds(f, v)
Remainders(B, f) ==
    LET non_entailing == {I \in SUBSET DOMAIN B : ~IndexEntails(B, I, f)}
    IN  {I \in non_entailing : \A J \in non_entailing : ~(I \subseteq J /\ I # J)}
RECURSIVE IndexSum(_, _)
IndexSum(B, I) ==
    IF I = {} THEN 0
    ELSE LET i == CHOOSE x \in I : TRUE IN B[i][2] + IndexSum(B, I \ {i})

-----------------------------------------------------------------------------
(* Claims *)

\* C1 Contraction success: after contract(F) with F not a tautology, whatever the base
\* was (consistent or not), entails(F) answers false on the base that is left.
ContractionSuccess ==
    (last.op = "contract" /\ ~Valid(last.f)) => ~entails(beliefs, last.f)

\* C1 witness: an inconsistent base of two or more beliefs was contracted by a formula
\* that is no tautology, and beliefs were given up.
ContractionSuccessWitness ==
    /\ last.op = "contract"
    /\ ~Valid(last.f)
    /\ ~Consistent(last.pre)
    /\ Len(last.pre) >= 2
    /\ Len(beliefs) < Len(last.pre)

\* C2 Contraction vacuity: when entails(F) is false before the call, contract(F) leaves
\* the dict as it was: the same formulas, priorities and order (the empty base included).
ContractionVacuity ==
    (last.op = "contract" /\ ~entails(last.pre, last.f)) => beliefs = last.pre

\* C2 witness: contract was called with a formula that a base of two or more beliefs
\* did not entail.
ContractionVacuityWitness ==
    /\ last.op = "contract"
    /\ ~entails(last.pre, last.f)
    /\ Len(last.pre) >= 2
    /\ beliefs = last.pre

\* C3 Contraction inclusion: every entry left by contract(F) was an entry before the
\* call, with the priority it had; nothing is introduced, no priority changes.
ContractionInclusion ==
    last.op = "contract" => SubDict(beliefs, last.pre)

\* C3 witness: a contraction that removed a belief and kept another.
ContractionInclusionWitness ==
    /\ last.op = "contract"
    /\ Len(beliefs) >= 1
    /\ Len(beliefs) < Len(last.pre)

\* C6 Entailment is semantic entailment: entails(F) answers true exactly when every
\* truth assignment satisfying all beliefs satisfies F; so the empty base entails
\* exactly the tautologies and an inconsistent base entails every formula.
EntailsIsSemantic ==
    last.op = "entails" =>
        /\ last.ret <=> SemEntails(last.pre, last.f)
        /\ Len(last.pre) = 0 => (last.ret <=> Valid(last.f))
        /\ ~Consistent(last.pre) => last.ret

\* C6 witness: a consistent base answers true for a formula that is neither a belief
\* nor a tautology.
EntailsIsSemanticWitness ==
    /\ last.op = "entails"
    /\ last.ret
    /\ Consistent(last.pre)
    /\ ~HasBelief(last.pre, last.f)
    /\ ~Valid(last.f)

PQ2 == <<Implication(P, Q), 2>>
P1 == <<P, 1>>

\* C7 Selection by priority sum: when the base entails F and F is no tautology, what
\* contract(F) leaves is a subset of the base that does not entail F and whose priority
\* sum is at least that of every inclusion-maximal non-entailing subset; with p->q at 2
\* and p at 1, contract(q) leaves exactly p->q.
SelectionByPrioritySum ==
    (last.op = "contract" /\ entails(last.pre, last.f) /\ ~Valid(last.f)) =>
        /\ SubDict(beliefs, last.pre)
        /\ ~entails(beliefs, last.f)
        /\ \A I \in Remainders(last.pre, last.f) :
                Score(beliefs) >= IndexSum(last.pre, I)
        /\ (last.pre = <<PQ2, P1>> /\ last.f = Q) => beliefs = <<PQ2>>

\* C7 witness: the example of the claim, and a base with two remainders of different sums.
SelectionByPrioritySumWitness ==
    /\ last.op = "contract"
    /\ last.pre = <<PQ2, P1>>
    /\ last.f = Q
    /\ beliefs = <<PQ2>>
    /\ Cardinality(Remainders(last.pre, last.f)) = 2

\* C8 Levi identity: revise(F, p) leaves the dict that contract(Negation(F)) followed by
\* expand(F, p) leaves; F is then a key with priority p and entails(F) answers true.
ReviseIsLevi ==
    last.op = "revise" =>
        /\ beliefs = expand(contract(last.pre, Negation(last.f)), last.f, last.p)
        /\ HasBelief(beliefs, last.f)
        /\ get_priority(beliefs, last.f) = last.p
        /\ entails(beliefs, last.f)

\* C8 witness: a revision whose contraction gave up a belief before F was added.
ReviseIsLeviWitness ==
    /\ last.op = "revise"
    /\ entails(last.pre, Negation(last.f))
    /\ ~HasBelief(last.pre, last.f)
    /\ Len(beliefs) <= Len(last.pre)
    /\ get_priority(beliefs, last.f) = last.p

\* C4 Resolution refutation correctness: for every finite clause set over the bounded
\* vocabulary (the empty clause and tautological clauses allowed in it), resolution()
\* returns true exactly when no truth assignment satisfies every clause of the set.
ResolutionDecidesUnsatisfiability ==
    res_pc = "done" => (res_out <=> Unsatisfiable(res_in))

\* C5 CNF soundness: a formula is true under an assignment exactly when every clause of
\* its to_cnf() has a literal true under it, the empty CNF counting as true.
CnfSoundness ==
    cnf_pc = "done" =>
        \A v \in Assignments : Holds(cnf_in, v) <=> ClausesHold(cnf_out, v)

\* C5 witness: a negated biconditional of two atoms was converted into two clauses.
CnfSoundnessWitness ==
    /\ cnf_pc = "done"
    /\ cnf_in = Negation(Biconditional(P, Q))
    /\ Cardinality(cnf_out) = 2

\* C9 Penguin scenario, as claimed: with bird->fly (1), penguin->bird (2) and
\* penguin->!fly (3), entails(penguin->fly) answers false and entails(penguin->!fly)
\* answers true.
PenguinScenarioAsClaimed ==
    (last.op = "entails" /\ last.pre = PenguinBase) =>
        /\ last.f = PenguinFly => ~last.ret
        /\ last.f = PenguinNotFly => last.ret

\* C9 Penguin scenario, amended: with the same three beliefs entails(penguin->fly)
\* answers true, as does entails(penguin->!fly): the beliefs rule out penguin, so they
\* entail every implication from it.
PenguinScenario ==
    (last.op = "entails" /\ last.pre = PenguinBase) =>
        /\ last.f = PenguinFly => last.ret
        /\ last.f = PenguinNotFly => last.ret

\* C9 witness: the script's base was asked about penguin->fly and answered true.
PenguinScenarioWitness ==
    /\ last.op = "entails"
    /\ last.pre = PenguinBase
    /\ beliefs = PenguinBase
    /\ last.f = PenguinFly
    /\ last.ret

\* C10 Sprinkler scenario: from rain->wet (3), sprinkler->wet (2), !rain (1),
\* entails(sprinkler) is false; after expand(wet, 4) and expand(wet->(rain|sprinkler), 5)
\* it is true; after the following revise(rain, 6) entails(sprinkler) is false and
\* entails(wet) is true.
SprinklerScenario ==
    last.op = "entails" =>
        /\ (last.pre = SprinklerBase /\ last.f = Sprinkler) => ~last.ret
        /\ (last.pre = SprinklerBaseWet /\ last.f = Sprinkler) => last.ret
        /\ (last.pre = SprinklerBaseRevised /\ last.f = Sprinkler) => ~last.ret
        /\ (last.pre = SprinklerBaseRevised /\ last.f = Wet) => last.ret

\* C10 witness: the base revised by rain, !rain given up, was asked about sprinkler.
SprinklerScenarioWitness ==
    /\ last.op = "entails"
    /\ last.pre = SprinklerBaseRevised
    /\ last.pre = <<<<RainWet, 3>>, <<SprinklerWet, 2>>, <<Wet, 4>>,
                    <<WetRainOrSprinkler, 5>>, <<Rain, 6>>>>
    /\ last.f = Sprinkler
    /\ ~last.ret

-----------------------------------------------------------------------------
(* Claims on the bookkeeping of the dict *)

Assigning == {"add_belief", "expand", "revise"}

\* C11 Priority lookup reflects history: after each call, get_priority(F) is the priority
\* just given when the call was an add_belief/expand/revise of a formula equal to F; it is
\* what it was before the call when F is still in the base; it is 0 when no formula equal
\* to F is in the base. Formulas equal under commutative equality share one entry, so
\* expand(F, p) on a base that holds F at p leaves the base as it was.
PriorityReflectsHistory ==
    last.op # "init" =>
        /\ \A g \in QueryInputs :
                get_priority(beliefs, g) =
                    IF last.op \in Assigning /\ FormulaEq(g, last.f) THEN last.p
                    ELSE IF HasBelief(beliefs, g) THEN get_priority(last.pre, g)
                    ELSE 0
        /\ \A i, j \in DOMAIN beliefs :
                FormulaEq(beliefs[i][1], beliefs[j][1]) => i = j
        /\ (last.op = "expand" /\ HasBelief(last.pre, last.f)
                /\ get_priority(last.pre, last.f) = last.p) => beliefs = last.pre

\* C11 witness: expand(q & p, 2) on a base holding p & q at priority 1 next to another
\* belief: one entry for the conjunction, its priority now 2.
PriorityReflectsHistoryWitness ==
    /\ last.op = "expand"
    /\ last.f = Conjunction(Q, P)
    /\ last.p = 2
    /\ Len(last.pre) = 2
    /\ \E i \in DOMAIN last.pre : last.pre[i] = <<Conjunction(P, Q), 1>>
    /\ Len(beliefs) = 2
    /\ get_priority(beliefs, Conjunction(P, Q)) = 2

-----------------------------------------------------------------------------
(* Claims on equality and hashing *)

\* C12 Commutative equality: for all formulas A and B, nested or not, Conjunction(A, B)
\* equals Conjunction(B, A), Disjunction(A, B) equals Disjunction(B, A), Biconditional(A, B)
\* equals Biconditional(B, A), each equal pair has the same hash, and Implication(A, B)
\* equals Implication(B, A) only when A equals B.
CommutativeEquality ==
    eq_pc = "done" =>
        /\ eq_out.conj /\ eq_out.conj_hash
        /\ eq_out.disj /\ eq_out.disj_hash
        /\ eq_out.bicon /\ eq_out.bicon_hash
        /\ eq_out.impl => (eq_out.operands /\ eq_out.impl_hash)

\* C12 witness: two different nested operands were compared in both orders; the two
\* implications differ.
CommutativeEqualityWitness ==
    /\ eq_pc = "done"
    /\ eq_a = Conjunction(P, Q)
    /\ eq_b = Negation(P)
    /\ eq_out.conj
    /\ ~eq_out.impl

-----------------------------------------------------------------------------
(* Claims on the clauses of a CNF *)

\* C13 Tautology filtering: no clause of F.to_cnf() holds both a literal and its negation,
\* and no clause of F.to_cnf() is the empty clause.
TautologyFiltering ==
    cnf_pc = "done" =>
        \A c \in cnf_out :
            /\ \A a \in Atoms : ~(<<a, FALSE>> \in c /\ <<a, TRUE>> \in c)
            /\ c # {}

\* C13 witness: p | !p was converted; its one clause was tautological and the CNF
\* returned is empty.
TautologyFilteringWitness ==
    /\ cnf_pc = "done"
    /\ cnf_in = Disjunction(P, Negation(P))
    /\ cnf_out = {}

-----------------------------------------------------------------------------
(* Further claims on contraction *)

\* C14 Contracting by a tautology is a silent no-op: when F is true under every truth
\* assignment, so that every subset of the base (the empty one too) entails F,
\* contract(F) leaves the base as it was.
TautologyContractionNoOp ==
    (last.op = "contract" /\ Valid(last.f)) =>
        /\ Len(find_maximal_non_entailing_subsets(last.pre, last.f)) = 0
        /\ beliefs = last.pre

\* C14 witness: a base of two or more beliefs was contracted by p | !p.
TautologyContractionNoOpWitness ==
    /\ last.op = "contract"
    /\ last.f = Disjunction(P, Negation(P))
    /\ Len(last.pre) >= 2
    /\ entails(last.pre, last.f)
    /\ beliefs = last.pre

\* C15 Recovery: after contract(F) followed by expand(F, p), the base entails every
\* belief that was in it before the contraction.
Recovery ==
    last.op = "contract_expand" =>
        \A i \in DOMAIN last.pre : entails(beliefs, last.pre[i][1])

\* two formulas with the same truth value under every assignment
Equivalent(f, g) == \A v \in Assignments : Holds(f, v) <=> Holds(g, v)

\* C16 Extensionality: for two formulas F and G with the same truth value under every
\* assignment, contract(F) and contract(G) applied to the same base leave the same base:
\* the same formulas, priorities and order.
Extensionality ==
    last.op = "contract" =>
        \A g \in QueryInputs \ {last.f} :
            Equivalent(g, last.f) => contract(last.pre, g) = beliefs

\* C16 witness: a base holding p was contracted by !!p and gave p up, as it does when
\* contracted by p.
ExtensionalityWitness ==
    /\ last.op = "contract"
    /\ last.f = Negation(Negation(P))
    /\ HasBelief(last.pre, P)
    /\ Len(last.pre) >= 2
    /\ ~HasBelief(beliefs, P)
    /\ beliefs = contract(last.pre, P)

-----------------------------------------------------------------------------
(* Claims on the saturation loop *)

\* C17 Resolution terminates: for every finite input clause set the loop of resolution()
\* eventually derives the empty clause and returns true, or reaches a round that adds no
\* clause not already accumulated and returns false; it never loops forever.
ResolutionTerminates ==
    <>(res_pc = "done" /\ res_out \in BOOLEAN)

\* C17 witness: a call that went round the loop more than once before it returned false.
ResolutionTerminatesWitness ==
    /\ res_pc = "done"
    /\ res_out = FALSE
    /\ clauses # res_in
    /\ new_clauses = {}

-----------------------------------------------------------------------------
(* Claims on the order of the beliefs *)

\* the position of the key equal to f in the dict B
PositionOf(B, f) == CHOOSE i \in DOMAIN B : FormulaEq(B[i][1], f)

\* the keys of B2 are keys of B1 and stand in B2 in the order they have in B1
KeepsOrder(B2, B1) ==
    /\ \A i \in DOMAIN B2 : HasBelief(B1, B2[i][1])
    /\ \A i, j \in DOMAIN B2 :
            i < j => PositionOf(B1, B2[i][1]) < PositionOf(B1, B2[j][1])

\* C18 Insertion order: get_beliefs() lists the beliefs in the order of their insertion:
\* a call that adds a formula not in the base puts it last, overwriting the priority of a
\* belief does not move it, and remove_belief and contract keep the surviving beliefs in
\* the relative order they had; after revise the formula revised by stands where it
\* stood if it was kept, and last otherwise.
InsertionOrder ==
    LET now == get_beliefs(beliefs)
        before == get_beliefs(last.pre)
    IN  /\ last.op \in {"add_belief", "expand"} =>
                now = IF HasBelief(last.pre, last.f) THEN before ELSE Append(before, last.f)
        /\ last.op \in {"remove_belief", "contract"} => KeepsOrder(beliefs, last.pre)
        /\ last.op = "revise" =>
                \/ KeepsOrder(beliefs, last.pre)
                \/ /\ now[Len(now)] = last.f
                   /\ KeepsOrder(SubSeq(beliefs, 1, Len(beliefs) - 1), last.pre)
                   /\ ~HasBelief(SubSeq(beliefs, 1, Len(beliefs) - 1), last.f)

\* C18 witness: the priority of the first of three beliefs was overwritten through an
\* equal formula written the other way round; the belief kept its place and its form.
InsertionOrderWitness ==
    /\ last.op = "expand"
    /\ Len(last.pre) = 3
    /\ last.pre[1] = <<Conjunction(P, Q), 1>>
    /\ last.f = Conjunction(Q, P)
    /\ last.p = 2
    /\ beliefs[1] = <<Conjunction(P, Q), 2>>
    /\ get_beliefs(beliefs) = get_beliefs(last.pre)

-----------------------------------------------------------------------------
(* Claims on what a contraction keeps *)

\* the positions of the dict B whose entries are entries of the dict d
KeptPositions(B, d) == {i \in DOMAIN B : \E j \in DOMAIN d : d[j] = B[i]}

\* C20 Maximality of the contracted base: when the base entails F and F is no tautology,
\* the base left by contract(F) together with any one belief that was removed entails F,
\* and no strictly larger subset of the earlier base that contains what is left fails
\* to entail F.
ContractionMaximality ==
    (last.op = "contract" /\ SemEntails(last.pre, last.f) /\ ~Valid(last.f)) =>
        /\ \A i \in DOMAIN last.pre :
                ~HasBelief(beliefs, last.pre[i][1]) =>
                    entails(Append(beliefs, last.pre[i]), last.f)
        /\ \A J \in SUBSET DOMAIN last.pre :
                (KeptPositions(last.pre, beliefs) \subseteq J
                    /\ KeptPositions(last.pre, beliefs) # J)
                        => IndexEntails(last.pre, J, last.f)

\* C20 witness: a contraction of three beliefs that kept one or more of them and gave up
\* one or more.
ContractionMaximalityWitness ==
    /\ last.op = "contract"
    /\ ~Valid(last.f)
    /\ Len(last.pre) = 3
    /\ Len(beliefs) >= 1
    /\ Len(beliefs) < 3
    /\ \E i \in DOMAIN last.pre :
            /\ ~HasBelief(beliefs, last.pre[i][1])
            /\ entails(Append(beliefs, last.pre[i]), last.f)

-----------------------------------------------------------------------------
(* Claims on the parser *)

AtomA == Atom("a")
AtomB == Atom("b")

\* C19 The parser maps every documented spelling of a connective to that connective:
\* 'a <-> b', 'a <=> b', 'a iff b' and 'a U+2194 b' each parse to Biconditional(a, b);
\* 'a -> b', 'a => b', 'a implies b' and 'a U+2192 b' each to Implication(a, b); 'a and b' to
\* Conjunction(a, b); 'a or b' to Disjunction(a, b).
ParserMapsSpellings ==
    parse_pc = "done" =>
        /\ parse_in \in {StrBiconArrow, StrBiconDouble, StrBiconWord, StrBiconSymbol}
                => parse_out = Biconditional(AtomA, AtomB)
        /\ parse_in \in {StrImplArrow, StrImplDouble, StrImplWord, StrImplSymbol}
                => parse_out = Implication(AtomA, AtomB)
        /\ parse_in = StrConjWord => parse_out = Conjunction(AtomA, AtomB)
        /\ parse_in = StrDisjWord => parse_out = Disjunction(AtomA, AtomB)

-----------------------------------------------------------------------------
(* Claims on the choice among remainders and on revision *)

\* the bitmask of an index set: bit j - 1 is set for position j
RECURSIVE MaskOf(_)
MaskOf(I) ==
    IF I = {} THEN 0
    ELSE LET i == CHOOSE x \in I : TRUE IN 2 ^ (i - 1) + MaskOf(I \ {i})

\* the remainders of the highest priority sum
BestRemainders(B, f) ==
    LET all == Remainders(B, f)
    IN  {I \in all : \A J \in all : IndexSum(B, J) <= IndexSum(B, I)}

\* C21 Deterministic tie-break: when several maximal non-entailing subsets share the
\* highest priority sum, contract keeps the one found first in the enumeration by
\* increasing bitmask over the beliefs in insertion order; the base left is so fixed by
\* the formulas, priorities and order of the base contracted.
DeterministicTieBreak ==
    (last.op = "contract" /\ SemEntails(last.pre, last.f) /\ ~Valid(last.f)) =>
        LET best == BestRemainders(last.pre, last.f)
            first == CHOOSE I \in best : \A J \in best : MaskOf(I) <= MaskOf(J)
        IN  /\ KeptPositions(last.pre, beliefs) = first
            /\ Len(beliefs) = Cardinality(first)
            /\ KeepsOrder(beliefs, last.pre)

\* C21 witness: a contraction with two or more remainders of the highest sum, which kept
\* the one of the lowest bitmask and gave up a belief another of them holds.
DeterministicTieBreakWitness ==
    /\ last.op = "contract"
    /\ entails(last.pre, last.f)
    /\ ~Valid(last.f)
    /\ Cardinality(BestRemainders(last.pre, last.f)) >= 2
    /\ Len(beliefs) >= 1
    /\ \E I \in BestRemainders(last.pre, last.f) :
            /\ I # KeptPositions(last.pre, beliefs)
            /\ MaskOf(I) > MaskOf(KeptPositions(last.pre, beliefs))

\* C22 Revision restores consistency: for every base, an inconsistent one too, and every
\* satisfiable F, after revise(F, p) some truth assignment satisfies every belief, so
\* the base does not entail q & !q; when F is unsatisfiable, revise leaves every prior
\* belief in place and adds F.
RevisionRestoresConsistency ==
    last.op = "revise" =>
        IF \E v \in Assignments : Holds(last.f, v)
        THEN /\ Consistent(beliefs)
             /\ ~entails(beliefs, Conjunction(Q, Negation(Q)))
        ELSE /\ Len(beliefs) >= Len(last.pre)
             /\ \A i \in DOMAIN last.pre :
                    /\ beliefs[i][1] = last.pre[i][1]
                    /\ FormulaEq(last.pre[i][1], last.f) \/ beliefs[i][2] = last.pre[i][2]
             /\ HasBelief(beliefs, last.f)
             /\ get_priority(beliefs, last.f) = last.p

\* C22 witness: an inconsistent base of two or more beliefs was revised by a satisfiable
\* formula and is consistent afterwards.
RevisionRestoresConsistencyWitness ==
    /\ last.op = "revise"
    /\ ~Consistent(last.pre)
    /\ Len(last.pre) >= 2
    /\ \E v \in Assignments : Holds(last.f, v)
    /\ Consistent(beliefs)
    /\ Len(beliefs) >= 2

====
